---- MODULE Spec2Model ----
(***************************************************************************)
(* FileOps Toolkit: the deduplication engine, the worker supervisor, the   *)
(* transfer pipeline that runs transfer units through it, verification,    *)
(* discovery and the CSV and JSON loggers.                                 *)
(***************************************************************************)
EXTENDS Integers, Sequences, FiniteSets, TLC

(***************************************************************************)
(* Bounds of the model.                                                    *)
(***************************************************************************)
\* Longest list of scanned files handed to deduplicate.
MaxFiles == 3
\* File sizes range over 1..MaxSize, modification times over 1..MaxMtime.
MaxSize == 2
MaxMtime == 2

\* Largest max_workers a WorkerSupervisor is built with.
MaxWorkers == 2
\* Longest task list handed to run_tasks.
MaxTasks == 3
\* Most calls of run_tasks on one supervisor.
MaxCalls == 2

\* Largest configured maximum attempt count of a transfer unit.
MaxAttempts == 3

\* Most regular files under the sources handed to discover_files.
MaxTree == 2
\* Longest extension list handed to discover_files.
MaxExts == 2

\* Most threads that share one CSVLogger.
MaxLogWorkers == 2
\* Most calls of log_result, and of add_record, in one run.
MaxLogCalls == 3

\* Base names of the scanned files.
Names == {"a", "b"}

\* The policy names handed to deduplicate: the two the code knows and one
\* it does not.
SupportedPolicies == {"prefer_newer", "keep_both_with_suffix"}
Policies == SupportedPolicies \cup {"bogus"}

VARIABLES
    files,        \* deduplicate: the FileMetadata list, files[i] the i-th object
    policy,       \* deduplicate: the policy name
    dd_state,     \* "idle", "returned" or "ValueError"
    dd_results,   \* the list deduplicate returned
    dd_again,     \* a second run of deduplicate over the same records,
                  \* enumerated in another order
    max_workers,  \* WorkerSupervisor.max_workers
    threads,      \* WorkerSupervisor._threads: [call, task] of each thread started
    pc,           \* where the calling thread is: "idle" before the first call, then
                  \* inside run_tasks "launch", "seq", "call", "join", and after it
                  \* "returned" or "raised"
    call,         \* calls of run_tasks made so far
    ntasks,       \* length of the task list of the current call
    raises,       \* raises[t]: whether the t-th callable ends by raising
    pos,          \* tasks taken from tasks_iter
    launched,     \* threads started by the current call: they run tasks 1..launched
    joined,       \* entries of _threads the join loop has passed
    tstate,       \* tstate[t]: "new", "started" (its thread is started), "running",
                  \* "returned" or "raised"
    nexec,        \* nexec[t]: how many times the t-th callable has been called
    stop_requested, \* the operator has asked to stop (menu option 9)
    decisions,    \* pipeline: the ordered decision list, one per DedupResult
    dry_run,      \* pipeline: dry-run mode
    tool,         \* pipeline: the transfer tool handed to transfer_file
    max_attempts, \* pipeline: the configured maximum attempt count
    unit,         \* unit[t]: the decision the t-th task is the transfer unit of
    phase,        \* phase[i]: "transfer", "verify" or "done" of unit i
    outcomes,     \* the outcome list, outcomes[i] for decisions[i]
    ncalls,       \* ncalls[i]: calls of transfer_file made for i in this run
    nok,          \* nok[i]: how many of them ended with rsync exiting 0
    last_rc,      \* last_rc[i]: what the last of them ended with
    nverify,      \* nverify[i]: calls of verify_file made for i
    overtaken,    \* some unit has ended before a unit earlier in the list
    dest_touched, \* the i whose destination path transfer_file has touched
    LAST_OUTCOMES, \* console/main.py: the outcomes of the last run
    v_src,        \* verify_file: the source file as the filesystem presents it
    v_dst,        \* verify_file: the destination file
    checksum_algo, \* verify_file: the checksum algorithm, "None" for none
    v_pc,         \* where verify_file is: "idle", "stat_src", "stat_dst",
                  \* "compare", "checksum_src", "checksum_dst", then
                  \* "returned" or "raised"
    v_result,     \* what verify_file returned, or the exception it raised
    v_digest,     \* the digest compute_checksum returned for the source
    nchecksum,    \* calls of compute_checksum made by verify_file
    tree,         \* discover_files: the names of the regular files under the
                  \* sources, in the order os.walk delivers them
    extensions,   \* discover_files: the extensions argument
    normalized_exts, \* discover_files: the normalized extension set
    walk_pos,     \* discover_files: files of the tree passed so far
    yielded,      \* discover_files: the positions in tree of the files yielded
    d_pc,         \* discover_files: "idle", "walking" or "done"
    log_workers,  \* the threads that call CSVLogger.log_result
    csv_open,     \* CSVLogger.file is open (not closed yet)
    csv_buf,      \* CSVLogger.file: the rows written and not flushed yet
    csv_disk,     \* the rows of the CSV file on disk; 0 is the header row
    log_pc,       \* log_pc[w]: where thread w is in log_result: "idle",
                  \* "record" (record built) or "written" (row written)
    log_rec,      \* log_rec[w]: the call thread w is in, 0 if none
    log_calls,    \* calls of log_result made so far; the k-th logs row k
    log_completed, \* calls of log_result that have returned
    json_records, \* JSONLogger.records
    json_flushes, \* calls of JSONLogger.flush made so far
    json_disk     \* the records of the JSON file on disk

dedup_vars == <<files, policy, dd_state, dd_results, dd_again>>

sup_vars == <<max_workers, threads, pc, call, ntasks, raises, pos, launched,
              joined, tstate, nexec, stop_requested>>

pipe_vars == <<decisions, dry_run, tool, max_attempts, unit, phase, outcomes,
               ncalls, nok, last_rc, nverify, overtaken, dest_touched,
               LAST_OUTCOMES>>

verify_vars == <<v_src, v_dst, checksum_algo, v_pc, v_result, v_digest,
                 nchecksum>>

disc_vars == <<tree, extensions, normalized_exts, walk_pos, yielded, d_pc>>

log_vars == <<log_workers, csv_open, csv_buf, csv_disk, log_pc, log_rec,
              log_calls, log_completed, json_records, json_flushes, json_disk>>

\* The variables of the components that work on the filesystem.
io_vars == <<verify_vars, disc_vars, log_vars>>

vars == <<files, policy, dd_state, dd_results, dd_again, max_workers, threads, pc, call,
          ntasks, raises, pos, launched, joined, tstate, nexec, stop_requested,
          decisions, dry_run, tool, max_attempts, unit, phase, outcomes,
          ncalls, nok, last_rc, nverify, overtaken, dest_touched,
          LAST_OUTCOMES, v_src, v_dst, checksum_algo, v_pc, v_result, v_digest,
          nchecksum, tree, extensions, normalized_exts, walk_pos, yielded, d_pc,
          log_workers, csv_open, csv_buf, csv_disk, log_pc, log_rec, log_calls,
          log_completed, json_records, json_flushes, json_disk>>

(***************************************************************************)
(* metadata/scanner.py: FileMetadata.  A record is an object: two list     *)
(* entries are the same object iff they are the same index of files.       *)
(* path.name is the base name; the directory part of the path is the       *)
(* index itself (every scanned file has its own path).                     *)
(***************************************************************************)
FileMetadata == [name : Names, size_bytes : 1..MaxSize, mtime : 1..MaxMtime]

FileLists == UNION {[1..n -> FileMetadata] : n \in 0..MaxFiles}

(***************************************************************************)
(* deduplication/engine.py                                                 *)
(***************************************************************************)
DedupResult(i, decision, reason) ==
    [src |-> i, dst_exists |-> FALSE, decision |-> decision, reason |-> reason]

\* grouped.setdefault(meta.path.name, []).append(meta), over the files in
\* order: a dict keeps its keys in insertion order.
RECURSIVE GroupedFrom(_, _, _)
GroupedFrom(fs, k, grouped) ==
    IF k > Len(fs) THEN grouped
    ELSE LET name == fs[k].name
             at == {g \in DOMAIN grouped : grouped[g].name = name}
         IN  IF at = {}
             THEN GroupedFrom(fs, k + 1,
                              Append(grouped, [name |-> name, metas |-> <<k>>]))
             ELSE LET g == CHOOSE g \in at : TRUE
                  IN  GroupedFrom(fs, k + 1,
                                  [grouped EXCEPT ![g].metas = Append(@, k)])

Grouped(fs) == GroupedFrom(fs, 1, <<>>)

\* key=lambda m: (m.size_bytes, m.mtime), compared as Python compares tuples.
Key(m) == <<m.size_bytes, m.mtime>>

KeyLess(k1, k2) == k1[1] < k2[1] \/ (k1[1] = k2[1] /\ k1[2] < k2[2])

\* max(metas, key=...): the running maximum is replaced only by a strictly
\* greater element, so the first maximal element wins.
RECURSIVE MaxFrom(_, _, _, _)
MaxFrom(fs, metas, k, best) ==
    IF k > Len(metas) THEN best
    ELSE MaxFrom(fs, metas, k + 1,
                 IF KeyLess(Key(fs[best]), Key(fs[metas[k]])) THEN metas[k] ELSE best)

Chosen(fs, metas) == MaxFrom(fs, metas, 2, metas[1])

\* `meta is chosen` compares objects, not values.
IsChosenByEq(fs, i, chosen) == Key(fs[i]) = Key(fs[chosen])

IsChosen(fs, i, chosen) == i = chosen

PreferNewerOnlyChosen(fs, metas) ==
    <<DedupResult(Chosen(fs, metas), "COPY", "chosen")>>

PreferNewer(fs, metas) ==
    LET chosen == Chosen(fs, metas)
    IN  [k \in 1..Len(metas) |->
            IF IsChosen(fs, metas[k], chosen)
            THEN DedupResult(metas[k], "COPY", "chosen")
            ELSE DedupResult(metas[k], "DUPLICATE", "duplicate")]

KeepBoth(metas) ==
    [k \in 1..Len(metas) |-> DedupResult(metas[k], "COPY", "keep_both")]

IsSingleNever(metas) == Len(metas) = 0

\* if len(metas) == 1
IsSingle(metas) == Len(metas) = 1

\* The loop over grouped.items(); the policy is looked at only inside a
\* group of two or more.  A raise discards the results built so far.
RECURSIVE DedupFrom(_, _, _, _, _)
DedupFrom(fs, pol, grouped, g, results) ==
    IF g > Len(grouped) THEN [raised |-> FALSE, results |-> results]
    ELSE LET metas == grouped[g].metas
         IN  IF IsSingle(metas)
             THEN DedupFrom(fs, pol, grouped, g + 1,
                            Append(results, DedupResult(metas[1], "COPY", "unique")))
             ELSE IF pol = "prefer_newer"
             THEN DedupFrom(fs, pol, grouped, g + 1, results \o PreferNewer(fs, metas))
             ELSE IF pol = "keep_both_with_suffix"
             THEN DedupFrom(fs, pol, grouped, g + 1, results \o KeepBoth(metas))
             ELSE [raised |-> TRUE, results |-> <<>>]

Deduplicate(fs, pol) == DedupFrom(fs, pol, Grouped(fs), 1, <<>>)

\* No second run yet.
NotAgain == [done |-> FALSE, order |-> <<>>, raised |-> FALSE, results |-> <<>>]

\* The enumeration orders of n records that exchange two neighbours, and
\* the same order again.  Every reordering is a sequence of such exchanges,
\* and the first run is made over every order.
Exchanges(n) ==
    {[k \in 1..n |-> k]} \cup
    {[k \in 1..n |-> IF k = i THEN i + 1 ELSE IF k = i + 1 THEN i ELSE k] :
        i \in 1..(n - 1)}

\* deduplicate over the records fs enumerated in the order `order`
\* (order[k] is the record enumerated k-th); the source of each result is
\* named as in fs.
DeduplicateInOrder(fs, order, pol) ==
    LET r == Deduplicate([k \in DOMAIN order |-> fs[order[k]]], pol)
    IN  [done |-> TRUE, order |-> order, raised |-> r.raised,
         results |-> [k \in DOMAIN r.results |->
                         [r.results[k] EXCEPT !.src = order[@]]]]

(***************************************************************************)
(* The deduplication phase: one call of deduplicate on the scanned files.  *)
(***************************************************************************)
\* A supervisor as constructed, with nothing submitted to it.
SupervisorNew ==
    /\ threads = <<>>
    /\ pc = "idle"
    /\ call = 0
    /\ ntasks = 0
    /\ raises = <<>>
    /\ pos = 0
    /\ launched = 0
    /\ joined = 0
    /\ tstate = <<>>
    /\ nexec = <<>>
    /\ stop_requested = FALSE

\* No pipeline run: nothing planned, nothing transferred.
PipelineIdle ==
    /\ decisions = <<>>
    /\ dry_run = FALSE
    /\ tool = "rsync"
    /\ max_attempts = 1
    /\ unit = <<>>
    /\ phase = <<>>
    /\ outcomes = <<>>
    /\ ncalls = <<>>
    /\ nok = <<>>
    /\ last_rc = <<>>
    /\ nverify = <<>>
    /\ overtaken = FALSE
    /\ dest_touched = {}
    /\ LAST_OUTCOMES = <<>>

\* The file of a path as one call of verify_file finds it: what stat() and
\* open()/read() end with, "ok" or the exception they raise, the size stat
\* reports and the digest of the bytes read.  (The file can change between
\* the two, so the two are independent.)
FsErrors == {"FileNotFoundError", "PermissionError", "OSError"}

FileStates ==
    [stat : {"ok"} \cup FsErrors, st_size : 1..MaxSize,
     read : {"ok"} \cup FsErrors, digest : {"d1", "d2"}]

NoFile == [stat |-> "FileNotFoundError", st_size |-> 1,
           read |-> "FileNotFoundError", digest |-> "d1"]

\* verify_file is not being called.
VerifyIdle ==
    /\ v_src = NoFile
    /\ v_dst = NoFile
    /\ checksum_algo = "None"
    /\ v_pc = "idle"
    /\ v_result = "none"
    /\ v_digest = "none"
    /\ nchecksum = 0

\* discover_files is not being called.
DiscoveryIdle ==
    /\ tree = <<>>
    /\ extensions = <<>>
    /\ normalized_exts = {}
    /\ walk_pos = 0
    /\ yielded = <<>>
    /\ d_pc = "idle"

\* No logger has been constructed.
LogIdle ==
    /\ log_workers = 0
    /\ csv_open = FALSE
    /\ csv_buf = <<>>
    /\ csv_disk = <<>>
    /\ log_pc = <<>>
    /\ log_rec = <<>>
    /\ log_calls = 0
    /\ log_completed = 0
    /\ json_records = <<>>
    /\ json_flushes = 0
    /\ json_disk = <<>>

\* None of the components that work on the filesystem is in use.
IoIdle == VerifyIdle /\ DiscoveryIdle /\ LogIdle

InitDedup ==
    /\ files \in FileLists
    /\ policy \in Policies
    /\ dd_state = "idle"
    /\ dd_results = <<>>
    /\ dd_again = NotAgain
    /\ max_workers = 0
    /\ SupervisorNew
    /\ PipelineIdle
    /\ IoIdle

CallDeduplicate ==
    /\ dd_state = "idle"
    /\ LET r == Deduplicate(files, policy)
       IN  /\ dd_state' = IF r.raised THEN "ValueError" ELSE "returned"
           /\ dd_results' = r.results
    /\ UNCHANGED <<files, policy, dd_again>>
    /\ UNCHANGED <<sup_vars, pipe_vars, io_vars>>

\* A later invocation scans the same records in another order and calls
\* deduplicate with the same policy.
CallDeduplicateAgain ==
    /\ dd_state = "returned"
    /\ ~dd_again.done
    /\ \E order \in Exchanges(Len(files)) :
          dd_again' = DeduplicateInOrder(files, order, policy)
    /\ UNCHANGED <<files, policy, dd_state, dd_results>>
    /\ UNCHANGED <<sup_vars, pipe_vars, io_vars>>

NextDedup ==
    \/ CallDeduplicate
    \/ CallDeduplicateAgain

SpecDedup == InitDedup /\ [][NextDedup]_vars

(***************************************************************************)
(* supervisor/manager.py: WorkerSupervisor.run_tasks.  The calling thread  *)
(* takes one step per loop iteration; a task run by a thread takes its own *)
(* steps in between.                                                       *)
(***************************************************************************)
\* No deduplication call is part of a supervisor run.
DedupIdle ==
    /\ files = <<>>
    /\ policy = "prefer_newer"
    /\ dd_state = "idle"
    /\ dd_results = <<>>
    /\ dd_again = NotAgain

\* __init__: max_workers as given, no thread yet.
InitSupervisor ==
    /\ DedupIdle
    /\ PipelineIdle
    /\ max_workers \in 0..MaxWorkers
    /\ SupervisorNew
    /\ IoIdle

\* run_tasks is entered with a list of n callables: tasks_iter = iter(tasks).
\* _threads is kept from the calls before.
EnterRunTasks(n, r) ==
    /\ call < MaxCalls
    /\ call' = call + 1
    /\ ntasks' = n
    /\ raises' = r
    /\ tstate' = [t \in 1..n |-> "new"]
    /\ nexec' = [t \in 1..n |-> 0]
    /\ pos' = 0
    /\ launched' = 0
    /\ joined' = 0
    /\ pc' = "launch"
    /\ UNCHANGED <<max_workers, threads, stop_requested>>

\* A caller hands run_tasks any list of callables, again once it returned.
StartRun ==
    /\ pc \in {"idle", "returned"}
    /\ \E n \in 0..MaxTasks : \E r \in [1..n -> BOOLEAN] : EnterRunTasks(n, r)
    /\ UNCHANGED <<dedup_vars, pipe_vars, io_vars>>

\* One iteration of `for _ in range(self.max_workers)` that finds a task:
\* the thread is created, appended to _threads and started.
LaunchThread ==
    /\ pc = "launch"
    /\ launched < max_workers
    /\ pos < ntasks
    /\ pos' = pos + 1
    /\ launched' = launched + 1
    /\ threads' = Append(threads, [call |-> call, task |-> pos + 1])
    /\ tstate' = [tstate EXCEPT ![pos + 1] = "started"]
    /\ UNCHANGED <<nexec, max_workers, pc, call, ntasks, raises, joined, stop_requested>>
    /\ UNCHANGED <<dedup_vars, pipe_vars, io_vars>>

\* The launch loop ends: range exhausted, or StopIteration and break.
LaunchDone ==
    /\ pc = "launch"
    /\ (launched = max_workers \/ pos = ntasks)
    /\ pc' = "seq"
    /\ UNCHANGED <<nexec, max_workers, threads, call, ntasks, raises, pos, launched,
                   joined, tstate, stop_requested>>
    /\ UNCHANGED <<dedup_vars, pipe_vars, io_vars>>

\* `for task in tasks_iter: task()`: the calling thread calls the next task
\* itself, while the started threads are still running.
SeqCall ==
    /\ pc = "seq"
    /\ pos < ntasks
    /\ pos' = pos + 1
    /\ tstate' = [tstate EXCEPT ![pos + 1] = "running"]
    /\ pc' = "call"
    /\ nexec' = [nexec EXCEPT ![pos + 1] = @ + 1]
    /\ UNCHANGED <<max_workers, threads, call, ntasks, raises, launched, joined,
                   stop_requested>>
    /\ UNCHANGED <<dedup_vars, pipe_vars, io_vars>>

SeqDoneSkipsRest ==
    /\ pc = "seq"
    /\ pc' = "join"
    /\ UNCHANGED <<nexec, max_workers, threads, call, ntasks, raises, pos, launched,
                   joined, tstate, stop_requested>>
    /\ UNCHANGED <<dedup_vars, pipe_vars, io_vars>>

\* tasks_iter is exhausted: on to the join loop.
SeqDone ==
    /\ pc = "seq"
    /\ pos = ntasks
    /\ pc' = "join"
    /\ UNCHANGED <<nexec, max_workers, threads, call, ntasks, raises, pos, launched,
                   joined, tstate, stop_requested>>
    /\ UNCHANGED <<dedup_vars, pipe_vars, io_vars>>

\* A started thread begins to run its target.
ThreadBegin(t) ==
    /\ tstate[t] = "started"
    /\ tstate' = [tstate EXCEPT ![t] = "running"]
    /\ nexec' = [nexec EXCEPT ![t] = @ + 1]
    /\ UNCHANGED <<max_workers, threads, pc, call, ntasks, raises, pos, launched,
                   joined, stop_requested>>
    /\ UNCHANGED <<dedup_vars, pipe_vars, io_vars>>

\* The callable t ends, by returning or by raising.  In its own thread the
\* thread ends either way.  Called by the calling thread (t > launched), a
\* return goes on with the loop and an exception leaves run_tasks at once:
\* nothing catches it.
EndTask(t, raised) ==
    /\ tstate[t] = "running"
    /\ tstate' = [tstate EXCEPT ![t] = IF raised THEN "raised" ELSE "returned"]
    /\ pc' = IF t > launched THEN (IF raised THEN "raised" ELSE "seq") ELSE pc
    /\ UNCHANGED <<nexec, max_workers, threads, call, ntasks, raises, pos, launched,
                   joined, stop_requested>>

\* A callable of a caller's list ends as the list says it does.
TaskEnd(t) ==
    /\ EndTask(t, raises[t])
    /\ UNCHANGED <<dedup_vars, pipe_vars, io_vars>>

\* A thread object is finished once its target has ended; the threads of
\* earlier calls were all joined before those calls returned.
ThreadFinished(th) ==
    IF th.call < call THEN TRUE ELSE tstate[th.task] \in {"returned", "raised"}

JoinThreadNoWait ==
    /\ pc = "join"
    /\ joined < Len(threads)
    /\ joined' = joined + 1
    /\ UNCHANGED <<nexec, max_workers, threads, pc, call, ntasks, raises, pos, launched,
                   tstate, stop_requested>>
    /\ UNCHANGED <<dedup_vars, pipe_vars, io_vars>>

\* `for t in self._threads: t.join()`: blocks until that thread has finished.
JoinThread ==
    /\ pc = "join"
    /\ joined < Len(threads)
    /\ ThreadFinished(threads[joined + 1])
    /\ joined' = joined + 1
    /\ UNCHANGED <<nexec, max_workers, threads, pc, call, ntasks, raises, pos, launched,
                   tstate, stop_requested>>
    /\ UNCHANGED <<dedup_vars, pipe_vars, io_vars>>

\* The join loop is through: run_tasks returns None.
JoinDone ==
    /\ pc = "join"
    /\ joined = Len(threads)
    /\ pc' = "returned"
    /\ UNCHANGED <<nexec, max_workers, threads, call, ntasks, raises, pos, launched,
                   joined, tstate, stop_requested>>
    /\ UNCHANGED <<dedup_vars, pipe_vars, io_vars>>

(***************************************************************************)
(* console/main.py, menu: option 9, "Stop / Resume operations".  The menu  *)
(* reads a choice only between runs; the handler prints a line and changes *)
(* nothing, so that the request was made is kept here as history only.     *)
(***************************************************************************)
StopRequest ==
    /\ pc \in {"idle", "returned"}
    /\ ~stop_requested
    /\ stop_requested' = TRUE
    /\ UNCHANGED <<nexec, max_workers, threads, pc, call, ntasks, raises, pos, launched,
                   joined, tstate>>
    /\ UNCHANGED <<dedup_vars, pipe_vars, io_vars>>

Next ==
    \/ StartRun
    \/ LaunchThread
    \/ LaunchDone
    \/ SeqCall
    \/ SeqDone
    \/ \E t \in 1..ntasks : ThreadBegin(t)
    \/ \E t \in 1..ntasks : TaskEnd(t)
    \/ JoinThread
    \/ JoinDone
    \/ StopRequest

Spec == InitSupervisor /\ [][Next]_vars

\* The scheduler lets every thread that can take a step take it in the
\* end, and a callable that has been called ends.  Nothing makes a caller
\* call run_tasks, or the operator ask for a stop.
Fairness ==
    /\ WF_vars(LaunchThread)
    /\ WF_vars(LaunchDone)
    /\ WF_vars(SeqCall)
    /\ WF_vars(SeqDone)
    /\ WF_vars(\E t \in 1..ntasks : ThreadBegin(t))
    /\ WF_vars(\E t \in 1..ntasks : TaskEnd(t))
    /\ WF_vars(JoinThread)
    /\ WF_vars(JoinDone)

SpecFair == Spec /\ Fairness

(***************************************************************************)
(* The transfer pipeline: execute_pipeline and its transfer units live in  *)
(* fileops_toolkit/pipeline.py, which console/main.py imports and calls.   *)
(* That file is not among the sources: the pipeline is modelled from the   *)
(* design (sections 4.4 and 5), around the code it calls.  The units are   *)
(* the callables handed to WorkerSupervisor.run_tasks; each calls          *)
(* transfer_file and verify_file.  A unit records a failed transfer in its *)
(* outcome and never raises.  A dry-run outcome counts no attempt.         *)
(***************************************************************************)
\* console/main.py, _render_decisions: the decisions that are transferred.
Actionable(d) == d \in {"COPY", "REPLACE", "COPY_WITH_SUFFIX"}

\* TransferOutcome, and the absent transfer (None) of an OperationOutcome.
Absent == [present |-> FALSE, attempts |-> 0, success |-> FALSE, error_message |-> "none"]

Transfer(a, ok, err) == [present |-> TRUE, attempts |-> a, success |-> ok, error_message |-> err]

\* OperationOutcome of decisions[i]; NoOutcome is a slot not filled yet.
OperationOutcome(i, tr) == [result |-> i, transfer |-> tr]

NoOutcome == [result |-> 0, transfer |-> Absent]

\* Exit statuses of the rsync process: 0, or one of two errors.
ExitCodes == {0, 23, 30}

\* The decision lists deduplicate produces under the supported policies.
DecisionsOf(rs) == [k \in DOMAIN rs |-> rs[k].decision]

Plans ==
    {DecisionsOf(Deduplicate(fs, pol).results) :
        fs \in FileLists, pol \in SupportedPolicies}

\* The decisions with a transfer unit, in the order of the decision list.
RECURSIVE UnitsFrom(_, _)
UnitsFrom(ds, k) ==
    IF k > Len(ds) THEN <<>>
    ELSE (IF Actionable(ds[k]) THEN <<k>> ELSE <<>>) \o UnitsFrom(ds, k + 1)

(***************************************************************************)
(* transfer/engine.py: transfer_file(src, dst, tool).  rc is the status    *)
(* the rsync process exits with when it is run.  The destination's parent  *)
(* directory is created before the tool is looked at.                      *)
(***************************************************************************)
TransferFile(tl, rc) ==
    IF tl = "rsync"
    THEN [raised |-> FALSE, returncode |-> rc]
    ELSE [raised |-> TRUE, returncode |-> 0]

\* The error message a failed attempt leaves.
ErrorMessage(r) ==
    IF r.raised THEN "ValueError"
    ELSE IF r.returncode = 23 THEN "exit 23" ELSE "exit 30"

InitPipeline ==
    /\ DedupIdle
    /\ SupervisorNew
    /\ IoIdle
    /\ max_workers \in 0..MaxWorkers
    /\ decisions \in Plans
    /\ dry_run \in BOOLEAN
    /\ tool \in {"rsync", "rclone"}
    /\ max_attempts \in 1..MaxAttempts
    /\ unit = <<>>
    /\ phase = <<>>
    /\ outcomes = <<>>
    /\ ncalls = <<>>
    /\ nok = <<>>
    /\ last_rc = <<>>
    /\ nverify = <<>>
    /\ overtaken = FALSE
    /\ dest_touched = {}
    /\ LAST_OUTCOMES = <<>>

\* execute_pipeline, once the decisions are made: a Duplicate gets its
\* outcome with no transfer at once, every other decision gets a transfer
\* unit, and the units are handed to run_tasks.
ExecutePipeline ==
    /\ pc = "idle"
    /\ LET us == UnitsFrom(decisions, 1)
       IN  /\ unit' = us
           /\ EnterRunTasks(Len(us), [t \in 1..Len(us) |-> FALSE])
    /\ outcomes' = [i \in DOMAIN decisions |->
                       IF Actionable(decisions[i])
                       THEN NoOutcome
                       ELSE OperationOutcome(i, Absent)]
    /\ phase' = [i \in DOMAIN decisions |-> "transfer"]
    /\ ncalls' = [i \in DOMAIN decisions |-> 0]
    /\ nok' = [i \in DOMAIN decisions |-> 0]
    /\ last_rc' = [i \in DOMAIN decisions |-> 0]
    /\ nverify' = [i \in DOMAIN decisions |-> 0]
    /\ overtaken' = FALSE
    /\ UNCHANGED <<decisions, dry_run, tool, max_attempts, dest_touched,
                   LAST_OUTCOMES>>
    /\ UNCHANGED <<dedup_vars, io_vars>>

\* Unit i ends while a unit earlier in the list has not ended yet.
Overtakes(i) ==
    \E j \in 1..(i - 1) : Actionable(decisions[j]) /\ phase[j] # "done"

UnitDryRunTransfers(t) ==
    /\ dry_run
    /\ tstate[t] = "running"
    /\ LET i == unit[t]
       IN  /\ ncalls' = [ncalls EXCEPT ![i] = @ + 1]
           /\ dest_touched' = dest_touched \cup {i}
           /\ outcomes' = [outcomes EXCEPT ![i] =
                              OperationOutcome(i, Transfer(1, TRUE, "none"))]
           /\ phase' = [phase EXCEPT ![i] = "done"]
           /\ overtaken' = (overtaken \/ Overtakes(i))
    /\ EndTask(t, FALSE)
    /\ UNCHANGED <<decisions, dry_run, tool, max_attempts, unit, nok, last_rc,
                   nverify, LAST_OUTCOMES>>
    /\ UNCHANGED <<dedup_vars, io_vars>>

\* A unit in dry-run mode: a simulated success, with neither transfer_file
\* nor verify_file called.
UnitDryRun(t) ==
    /\ dry_run
    /\ tstate[t] = "running"
    /\ LET i == unit[t]
       IN  /\ outcomes' = [outcomes EXCEPT ![i] =
                              OperationOutcome(i, Transfer(0, TRUE, "none"))]
           /\ phase' = [phase EXCEPT ![i] = "done"]
           /\ overtaken' = (overtaken \/ Overtakes(i))
    /\ EndTask(t, FALSE)
    /\ UNCHANGED <<decisions, dry_run, tool, max_attempts, unit, ncalls, nok,
                   last_rc, nverify, dest_touched, LAST_OUTCOMES>>
    /\ UNCHANGED <<dedup_vars, io_vars>>

\* Whether a unit whose n-th attempt failed makes another attempt.
RetryAfterOneTooMany(n) == n <= max_attempts

RetryAfter(n) == n < max_attempts

\* One attempt of a unit: transfer_file is called.  Exit status 0 leads to
\* verification; a failure (a non-zero status, or transfer_file raising) is
\* retried while attempts are left, and is the final outcome otherwise.
UnitTransfer(t) ==
    /\ ~dry_run
    /\ tstate[t] = "running"
    /\ phase[unit[t]] = "transfer"
    /\ \E rc \in ExitCodes :
          LET i == unit[t]
              r == TransferFile(tool, rc)
              n == ncalls[i] + 1
              failed == r.raised \/ r.returncode # 0
          IN  /\ ncalls' = [ncalls EXCEPT ![i] = n]
              /\ dest_touched' = dest_touched \cup {i}
              /\ nok' = [nok EXCEPT ![i] = IF tool = "rsync" /\ rc = 0 THEN @ + 1 ELSE @]
              /\ last_rc' = [last_rc EXCEPT ![i] = IF tool = "rsync" THEN rc ELSE -1]
              /\ IF ~failed
                 THEN /\ phase' = [phase EXCEPT ![i] = "verify"]
                      /\ UNCHANGED <<outcomes, overtaken, sup_vars>>
                 ELSE IF RetryAfter(n)
                 THEN UNCHANGED <<phase, outcomes, overtaken, sup_vars>>
                 ELSE /\ phase' = [phase EXCEPT ![i] = "done"]
                      /\ overtaken' = (overtaken \/ Overtakes(i))
                      /\ outcomes' = [outcomes EXCEPT ![i] =
                             OperationOutcome(i, Transfer(n, FALSE, ErrorMessage(r)))]
                      /\ EndTask(t, FALSE)
    /\ UNCHANGED <<decisions, dry_run, tool, max_attempts, unit, nverify,
                   LAST_OUTCOMES>>
    /\ UNCHANGED <<dedup_vars, io_vars>>

\* After a successful attempt verify_file is called once; ok is what it
\* returns.  A failed verification is final: the transfer is not retried.
UnitVerify(t) ==
    /\ tstate[t] = "running"
    /\ phase[unit[t]] = "verify"
    /\ \E ok \in BOOLEAN :
          LET i == unit[t]
          IN  /\ nverify' = [nverify EXCEPT ![i] = @ + 1]
              /\ outcomes' = [outcomes EXCEPT ![i] =
                     OperationOutcome(i, Transfer(ncalls[i], ok,
                         IF ok THEN "none" ELSE "verification failed"))]
              /\ phase' = [phase EXCEPT ![i] = "done"]
              /\ overtaken' = (overtaken \/ Overtakes(i))
    /\ EndTask(t, FALSE)
    /\ UNCHANGED <<decisions, dry_run, tool, max_attempts, unit, ncalls, nok,
                   last_rc, dest_touched, LAST_OUTCOMES>>
    /\ UNCHANGED <<dedup_vars, io_vars>>

(***************************************************************************)
(* console/main.py: run stores the session; _render_failures and           *)
(* _show_retry_queue list the failed transfers of an outcome list.         *)
(***************************************************************************)
StoreSession ==
    /\ pc = "returned"
    /\ LAST_OUTCOMES' = outcomes
    /\ pc' = "stored"
    /\ UNCHANGED <<nexec, max_workers, threads, call, ntasks, raises, pos, launched,
                   joined, tstate, stop_requested>>
    /\ UNCHANGED <<decisions, dry_run, tool, max_attempts, unit, phase, outcomes,
                   ncalls, nok, last_rc, nverify, overtaken, dest_touched>>
    /\ UNCHANGED <<dedup_vars, io_vars>>

FailuresNoGuard(os) ==
    {k \in DOMAIN os : ~(os[k].transfer.present /\ os[k].transfer.success)}

\* [o for o in outcomes if o.transfer and not o.transfer.success]
Failures(os) ==
    {k \in DOMAIN os : os[k].transfer.present /\ ~os[k].transfer.success}

NextPipeline ==
    \/ ExecutePipeline
    \/ LaunchThread
    \/ LaunchDone
    \/ SeqCall
    \/ SeqDone
    \/ \E t \in 1..ntasks : ThreadBegin(t)
    \/ \E t \in 1..ntasks : UnitDryRun(t)
    \/ \E t \in 1..ntasks : UnitTransfer(t)
    \/ \E t \in 1..ntasks : UnitVerify(t)
    \/ JoinThread
    \/ JoinDone
    \/ StoreSession

SpecPipeline == InitPipeline /\ [][NextPipeline]_vars

(***************************************************************************)
(* verification/engine.py: verify_file(src, dst, checksum_algo), one step  *)
(* per filesystem operation, in the order Python evaluates them (left      *)
(* operand first).                                                         *)
(***************************************************************************)
\* The checksum algorithms handed to verify_file: none, one that
\* compute_checksum supports and one it does not.
Algos == {"None", "md5", "crc"}

InitVerify ==
    /\ DedupIdle
    /\ SupervisorNew
    /\ max_workers = 0
    /\ PipelineIdle
    /\ DiscoveryIdle
    /\ LogIdle
    /\ v_src \in FileStates
    /\ v_dst \in FileStates
    /\ checksum_algo \in Algos
    /\ v_pc = "idle"
    /\ v_result = "none"
    /\ v_digest = "none"
    /\ nchecksum = 0

\* `return value`
VerifyReturn(value) ==
    /\ v_pc' = "returned"
    /\ v_result' = value

\* An exception raised inside the try block: `except FileNotFoundError:
\* return False`; any other exception leaves verify_file.
VerifyExcept(exc) ==
    IF exc = "FileNotFoundError"
    THEN VerifyReturn("False")
    ELSE /\ v_pc' = "raised"
         /\ v_result' = exc

\* verify_file is called.
VerifyFile ==
    /\ v_pc = "idle"
    /\ v_pc' = "stat_src"
    /\ UNCHANGED <<v_src, v_dst, checksum_algo, v_result, v_digest, nchecksum>>
    /\ UNCHANGED <<dedup_vars, sup_vars, pipe_vars, disc_vars, log_vars>>

\* src.stat()
StatSrc ==
    /\ v_pc = "stat_src"
    /\ IF v_src.stat = "ok"
       THEN v_pc' = "stat_dst" /\ UNCHANGED v_result
       ELSE VerifyExcept(v_src.stat)
    /\ UNCHANGED <<v_src, v_dst, checksum_algo, v_digest, nchecksum>>
    /\ UNCHANGED <<dedup_vars, sup_vars, pipe_vars, disc_vars, log_vars>>

\* dst.stat()
StatDst ==
    /\ v_pc = "stat_dst"
    /\ IF v_dst.stat = "ok"
       THEN v_pc' = "compare" /\ UNCHANGED v_result
       ELSE VerifyExcept(v_dst.stat)
    /\ UNCHANGED <<v_src, v_dst, checksum_algo, v_digest, nchecksum>>
    /\ UNCHANGED <<dedup_vars, sup_vars, pipe_vars, disc_vars, log_vars>>

SizesDifferIgnored(s, d) == FALSE

\* src.stat().st_size != dst.stat().st_size
SizesDiffer(s, d) == s.st_size # d.st_size

\* The size comparison, and `if checksum_algo:` after it.
CompareSizes ==
    /\ v_pc = "compare"
    /\ IF SizesDiffer(v_src, v_dst)
       THEN VerifyReturn("False")
       ELSE IF checksum_algo # "None"
       THEN v_pc' = "checksum_src" /\ UNCHANGED v_result
       ELSE VerifyReturn("True")
    /\ UNCHANGED <<v_src, v_dst, checksum_algo, v_digest, nchecksum>>
    /\ UNCHANGED <<dedup_vars, sup_vars, pipe_vars, disc_vars, log_vars>>

\* metadata/scanner.py, compute_checksum(path, algo): the algorithm is
\* looked up first, then the file is opened and read in chunks.
ComputeChecksum(f, algo) ==
    IF algo # "md5"
    THEN [raised |-> TRUE, exc |-> "ValueError", digest |-> "none"]
    ELSE IF f.read # "ok"
    THEN [raised |-> TRUE, exc |-> f.read, digest |-> "none"]
    ELSE [raised |-> FALSE, exc |-> "none", digest |-> f.digest]

\* compute_checksum(src, checksum_algo)
ChecksumSrc ==
    /\ v_pc = "checksum_src"
    /\ nchecksum' = nchecksum + 1
    /\ LET c == ComputeChecksum(v_src, checksum_algo)
       IN  IF c.raised
           THEN VerifyExcept(c.exc) /\ UNCHANGED v_digest
           ELSE /\ v_digest' = c.digest
                /\ v_pc' = "checksum_dst"
                /\ UNCHANGED v_result
    /\ UNCHANGED <<v_src, v_dst, checksum_algo>>
    /\ UNCHANGED <<dedup_vars, sup_vars, pipe_vars, disc_vars, log_vars>>

\* compute_checksum(dst, checksum_algo), and the comparison of the digests.
ChecksumDst ==
    /\ v_pc = "checksum_dst"
    /\ nchecksum' = nchecksum + 1
    /\ LET c == ComputeChecksum(v_dst, checksum_algo)
       IN  IF c.raised
           THEN VerifyExcept(c.exc)
           ELSE VerifyReturn(IF v_digest = c.digest THEN "True" ELSE "False")
    /\ UNCHANGED <<v_src, v_dst, checksum_algo, v_digest>>
    /\ UNCHANGED <<dedup_vars, sup_vars, pipe_vars, disc_vars, log_vars>>

NextVerify ==
    \/ VerifyFile
    \/ StatSrc
    \/ StatDst
    \/ CompareSizes
    \/ ChecksumSrc
    \/ ChecksumDst

SpecVerify == InitVerify /\ [][NextVerify]_vars

(***************************************************************************)
(* discovery/engine.py: discover_files(sources, extensions), a generator.  *)
(* A string is the sequence of its characters.                             *)
(***************************************************************************)
\* File names: "a", "a.t", "a.T", ".t" and "a.".
FileNames ==
    {<<"a">>, <<"a", ".", "t">>, <<"a", ".", "T">>, <<".", "t">>, <<"a", ".">>}

\* Entries of the extensions argument: "t", ".T" and "a".
ExtStrings == {<<"t">>, <<".", "T">>, <<"a">>}

Trees == UNION {[1..n -> FileNames] : n \in 0..MaxTree}

ExtLists == UNION {[1..n -> ExtStrings] : n \in 0..MaxExts}

\* str.lower()
LowerChar(c) == IF c = "T" THEN "t" ELSE c

Lower(str) == [k \in DOMAIN str |-> LowerChar(str[k])]

\* str.lstrip('.')
RECURSIVE LStripDots(_)
LStripDots(str) ==
    IF str # <<>> /\ Head(str) = "." THEN LStripDots(Tail(str)) ELSE str

\* str.split('.')[-1]: what follows the last dot, the whole string if it
\* has none.
LastPart(str) ==
    LET dots == {k \in DOMAIN str : str[k] = "."}
    IN  IF dots = {} THEN str
        ELSE SubSeq(str, (CHOOSE k \in dots : \A l \in dots : l <= k) + 1, Len(str))

\* {ext.lower().lstrip('.') for ext in extensions}
NormalizedExts(exts) == {LStripDots(Lower(exts[k])) : k \in DOMAIN exts}

\* name.lower().split('.')[-1] in normalized_exts
Matches(name, exts) == LastPart(Lower(name)) \in exts

InitDiscovery ==
    /\ DedupIdle
    /\ SupervisorNew
    /\ max_workers = 0
    /\ PipelineIdle
    /\ VerifyIdle
    /\ LogIdle
    /\ tree \in Trees
    /\ extensions \in ExtLists
    /\ normalized_exts = {}
    /\ walk_pos = 0
    /\ yielded = <<>>
    /\ d_pc = "idle"

\* The generator is started: the extension set is built.
DiscoverFiles ==
    /\ d_pc = "idle"
    /\ normalized_exts' = NormalizedExts(extensions)
    /\ d_pc' = "walking"
    /\ UNCHANGED <<tree, extensions, walk_pos, yielded>>
    /\ UNCHANGED <<dedup_vars, sup_vars, pipe_vars, verify_vars, log_vars>>

\* One iteration of `for name in files`: the file is yielded if it matches.
WalkFile ==
    /\ d_pc = "walking"
    /\ walk_pos < Len(tree)
    /\ walk_pos' = walk_pos + 1
    /\ yielded' = IF Matches(tree[walk_pos + 1], normalized_exts)
                  THEN Append(yielded, walk_pos + 1)
                  ELSE yielded
    /\ UNCHANGED <<tree, extensions, normalized_exts, d_pc>>
    /\ UNCHANGED <<dedup_vars, sup_vars, pipe_vars, verify_vars, log_vars>>

\* os.walk is exhausted for the last source: the generator ends.
WalkDone ==
    /\ d_pc = "walking"
    /\ walk_pos = Len(tree)
    /\ d_pc' = "done"
    /\ UNCHANGED <<tree, extensions, normalized_exts, walk_pos, yielded>>
    /\ UNCHANGED <<dedup_vars, sup_vars, pipe_vars, verify_vars, log_vars>>

NextDiscovery ==
    \/ DiscoverFiles
    \/ WalkFile
    \/ WalkDone

SpecDiscovery == InitDiscovery /\ [][NextDiscovery]_vars

(***************************************************************************)
(* logging/logger.py: CSVLogger and JSONLogger.  The CSV file object       *)
(* buffers what is written to it: a row reaches the file on disk when the  *)
(* buffer is flushed (rows are far smaller than the buffer).  What is on   *)
(* disk is what a crash of the process leaves.  A row is named by the      *)
(* number of the log_result call that writes it; the header row is 0.      *)
(***************************************************************************)
\* After CSVLogger.__init__ and JSONLogger.__init__: the CSV file is opened
\* for writing (created empty) and writeheader has written the header row
\* to the file object; the JSON file is not opened.
InitLog ==
    /\ DedupIdle
    /\ SupervisorNew
    /\ max_workers = 0
    /\ PipelineIdle
    /\ VerifyIdle
    /\ DiscoveryIdle
    /\ log_workers \in 1..MaxLogWorkers
    /\ csv_open = TRUE
    /\ csv_buf = <<0>>
    /\ csv_disk = <<>>
    /\ log_pc = [w \in 1..log_workers |-> "idle"]
    /\ log_rec = [w \in 1..log_workers |-> 0]
    /\ log_calls = 0
    /\ log_completed = 0
    /\ json_records = <<>>
    /\ json_flushes = 0
    /\ json_disk = <<>>

\* Thread w calls log_result and builds the record dict.
LogResult(w) ==
    /\ csv_open
    /\ log_pc[w] = "idle"
    /\ log_calls < MaxLogCalls
    /\ log_calls' = log_calls + 1
    /\ log_rec' = [log_rec EXCEPT ![w] = log_calls + 1]
    /\ log_pc' = [log_pc EXCEPT ![w] = "record"]
    /\ UNCHANGED <<log_workers, csv_open, csv_buf, csv_disk, log_completed,
                   json_records, json_flushes, json_disk>>
    /\ UNCHANGED <<dedup_vars, sup_vars, pipe_vars, verify_vars, disc_vars>>

\* self.writer.writerow(record): the row goes to the file object.  No lock
\* is taken.
WriteRow(w) ==
    /\ log_pc[w] = "record"
    /\ csv_buf' = Append(csv_buf, log_rec[w])
    /\ log_pc' = [log_pc EXCEPT ![w] = "written"]
    /\ UNCHANGED <<log_workers, csv_open, csv_disk, log_rec, log_calls,
                   log_completed, json_records, json_flushes, json_disk>>
    /\ UNCHANGED <<dedup_vars, sup_vars, pipe_vars, verify_vars, disc_vars>>

FlushNothing(disk, buf) == disk

\* file.flush(): everything buffered goes to the file on disk.
Flush(disk, buf) == disk \o buf

\* self.file.flush(), and log_result returns.
FlushRow(w) ==
    /\ log_pc[w] = "written"
    /\ csv_disk' = Flush(csv_disk, csv_buf)
    /\ csv_buf' = <<>>
    /\ log_pc' = [log_pc EXCEPT ![w] = "idle"]
    /\ log_rec' = [log_rec EXCEPT ![w] = 0]
    /\ log_completed' = log_completed + 1
    /\ UNCHANGED <<log_workers, csv_open, log_calls, json_records,
                   json_flushes, json_disk>>
    /\ UNCHANGED <<dedup_vars, sup_vars, pipe_vars, verify_vars, disc_vars>>

\* CSVLogger.close(), at the end of the run: file.close() flushes.
CsvClose ==
    /\ csv_open
    /\ \A w \in 1..log_workers : log_pc[w] = "idle"
    /\ csv_disk' = Flush(csv_disk, csv_buf)
    /\ csv_buf' = <<>>
    /\ csv_open' = FALSE
    /\ UNCHANGED <<log_workers, log_pc, log_rec, log_calls, log_completed,
                   json_records, json_flushes, json_disk>>
    /\ UNCHANGED <<dedup_vars, sup_vars, pipe_vars, verify_vars, disc_vars>>

\* JSONLogger.add_record: self.records.append(asdict(result)).
JsonAddRecord ==
    /\ Len(json_records) < MaxLogCalls
    /\ json_records' = Append(json_records, Len(json_records) + 1)
    /\ UNCHANGED <<log_workers, csv_open, csv_buf, csv_disk, log_pc, log_rec,
                   log_calls, log_completed, json_flushes, json_disk>>
    /\ UNCHANGED <<dedup_vars, sup_vars, pipe_vars, verify_vars, disc_vars>>

\* JSONLogger.flush: the file is opened for writing and all the records
\* are dumped into it.  (A flush that finds nothing new is left out.)
JsonFlush ==
    /\ json_flushes = 0 \/ json_disk # json_records
    /\ json_disk' = json_records
    /\ json_flushes' = json_flushes + 1
    /\ UNCHANGED <<log_workers, csv_open, csv_buf, csv_disk, log_pc, log_rec,
                   log_calls, log_completed, json_records>>
    /\ UNCHANGED <<dedup_vars, sup_vars, pipe_vars, verify_vars, disc_vars>>

NextLog ==
    \/ \E w \in 1..log_workers : LogResult(w)
    \/ \E w \in 1..log_workers : WriteRow(w)
    \/ \E w \in 1..log_workers : FlushRow(w)
    \/ CsvClose
    \/ JsonAddRecord
    \/ JsonFlush

SpecLog == InitLog /\ [][NextLog]_vars

(***************************************************************************)
(* Properties of WorkerSupervisor.run_tasks (under Spec).                  *)
(***************************************************************************)
(***************************************************************************)
\* The tasks being executed, by a spawned thread or by the calling thread.
Executing == {t \in 1..ntasks : tstate[t] = "running"}

\* C1, as the claim states it: with max_workers = N >= 1, at most N tasks
\* are executing at the same time.
C1_AtMostNExecuting ==
    max_workers >= 1 => Cardinality(Executing) <= max_workers

\* C2, as the claim states it: a run in which some task raises still ends by
\* returning, with every task of the list executed to its end and every
\* started thread waited for.
C2_FailuresDoNotAbort ==
    (pc \in {"returned", "raised"} /\ \E t \in 1..ntasks : raises[t]) =>
        /\ pc = "returned"
        /\ \A t \in 1..ntasks : tstate[t] \in {"returned", "raised"}
        /\ joined = Len(threads)

\* C7, as the claim states it: once a stop request has been made, no task
\* that has not started yet is started.
C7_NoDispatchAfterStop ==
    [][(stop_requested /\ call' = call) =>
          \A t \in 1..ntasks : tstate[t] = "new" => tstate'[t] = "new"]_vars

\* No callable of the current task list raises.
NoTaskRaises == \A t \in 1..ntasks : ~raises[t]

\* The tasks of the current call that a thread of this call was started for.
RunByThread == {threads[k].task : k \in {k \in DOMAIN threads : threads[k].call = call}}

\* The smaller of two numbers.
Min(a, b) == IF a <= b THEN a ELSE b

\* C20 (under SpecFair): a call of run_tasks with a list of tasks none of
\* which raises returns in the end, the first call on a supervisor and every
\* later one, for every max_workers >= 0; no task is ever called twice, and
\* on return every task has been called exactly once and has returned, the
\* first min(max_workers, len(tasks)) in threads of their own and the others
\* by the calling thread.
C20_RunTasksReturnsEachTaskOnce ==
    /\ []((call >= 1 /\ NoTaskRaises) =>
            /\ pc # "raised"
            /\ \A t \in 1..ntasks : nexec[t] <= 1
            /\ pc = "returned" =>
                  /\ \A t \in 1..ntasks : nexec[t] = 1 /\ tstate[t] = "returned"
                  /\ RunByThread = 1..Min(max_workers, ntasks)
                  /\ Cardinality({k \in DOMAIN threads : threads[k].call = call})
                         = Cardinality(RunByThread))
    /\ (pc = "launch" /\ NoTaskRaises) ~> (pc = "returned")

\* C20 witness: the second call on one supervisor has returned, with more
\* tasks than workers, after a first call that started a thread.
C20_Witness ==
    /\ pc = "returned"
    /\ call = 2
    /\ NoTaskRaises
    /\ max_workers >= 1
    /\ ntasks > max_workers
    /\ \E k \in DOMAIN threads : threads[k].call = 1

(***************************************************************************)
(* Properties of the transfer pipeline (under SpecPipeline).               *)
(***************************************************************************)
UnitDone(i) ==
    /\ i \in DOMAIN phase
    /\ Actionable(decisions[i])
    /\ phase[i] = "done"

\* C3: a unit of a real run makes at most max_attempts attempts and none
\* after an attempt that succeeded; its final outcome counts the attempts
\* made; it is a success only if the last attempt succeeded, and a unit none
\* of whose attempts succeeded ends unsuccessful after max_attempts attempts
\* with the error of the last one.
C3_RetryProtocol ==
    ~dry_run =>
        \A i \in DOMAIN phase :
            /\ ncalls[i] <= max_attempts
            /\ nok[i] <= 1
            /\ nok[i] = 1 => last_rc[i] = 0
            /\ (Actionable(decisions[i]) /\ phase[i] = "transfer") =>
                   (nok[i] = 0 /\ ncalls[i] < max_attempts)
            /\ UnitDone(i) =>
                   LET tr == outcomes[i].transfer
                   IN  /\ tr.present
                       /\ tr.attempts = ncalls[i]
                       /\ tr.attempts >= 1
                       /\ tr.success => nok[i] = 1
                       /\ (nok[i] = 1 /\ ~tr.success) =>
                              tr.error_message = "verification failed"
                       /\ nok[i] = 0 =>
                              /\ ~tr.success
                              /\ tr.attempts = max_attempts
                              /\ tr.error_message =
                                    (IF last_rc[i] = 23 THEN "exit 23"
                                     ELSE IF last_rc[i] = 30 THEN "exit 30"
                                     ELSE "ValueError")

\* C3 witness: one unit failed twice and succeeded on its third attempt,
\* another failed on all three.
C3_Witness ==
    /\ ~dry_run
    /\ max_attempts = 3
    /\ \E i, j \in DOMAIN phase :
          /\ UnitDone(i) /\ UnitDone(j)
          /\ outcomes[i].transfer.success
          /\ outcomes[i].transfer.attempts = 3
          /\ ~outcomes[j].transfer.success
          /\ outcomes[j].transfer.attempts = 3
          /\ outcomes[j].transfer.error_message = "exit 30"

\* C4: the outcome list run_tasks' caller has on return, and the one stored
\* after it, holds at position k the outcome of the k-th decision, for every
\* k of the decision list.
C4_OneOutcomePerInputInOrder ==
    /\ pc \in {"returned", "stored"} =>
          /\ DOMAIN outcomes = DOMAIN decisions
          /\ \A k \in DOMAIN outcomes : outcomes[k].result = k
    /\ pc = "stored" =>
          /\ DOMAIN LAST_OUTCOMES = DOMAIN decisions
          /\ \A k \in DOMAIN LAST_OUTCOMES : LAST_OUTCOMES[k].result = k

\* C4 witness: the run has returned after a later unit ended before an
\* earlier one.
C4_Witness ==
    /\ pc = "returned"
    /\ overtaken

\* C5: a Duplicate decision has no transfer unit, is never handed to
\* transfer_file, has an outcome with no transfer from the start of the run
\* on, and is never among the failed transfers.
C5_DuplicateNeverTransferred ==
    \A i \in DOMAIN decisions :
        decisions[i] = "DUPLICATE" =>
            /\ \A t \in DOMAIN unit : unit[t] # i
            /\ i \notin dest_touched
            /\ call >= 1 =>
                  /\ ncalls[i] = 0
                  /\ outcomes[i] = OperationOutcome(i, Absent)
            /\ i \notin Failures(outcomes)
            /\ i \notin Failures(LAST_OUTCOMES)

\* C5 witness: a stored run with a Duplicate next to a failed transfer.
C5_Witness ==
    /\ pc = "stored"
    /\ \E i \in DOMAIN decisions : decisions[i] = "DUPLICATE"
    /\ Failures(LAST_OUTCOMES) # {}

\* C6: in dry-run mode transfer_file and verify_file are never called and no
\* destination path is touched, and the outcome list on return holds a
\* successful transfer for every actionable decision.
C6_DryRunTouchesNothing ==
    dry_run =>
        /\ dest_touched = {}
        /\ \A i \in DOMAIN ncalls : ncalls[i] = 0 /\ nverify[i] = 0
        /\ pc \in {"returned", "stored"} =>
              \A i \in DOMAIN decisions :
                  Actionable(decisions[i]) =>
                      /\ outcomes[i].result = i
                      /\ outcomes[i].transfer.present
                      /\ outcomes[i].transfer.success

\* C6 witness: a dry run over two actionable decisions has returned.
C6_Witness ==
    /\ dry_run
    /\ pc = "returned"
    /\ Len(unit) >= 2

(***************************************************************************)
(* Properties of the deduplication engine (under SpecDedup).               *)
(***************************************************************************)
\* The records sharing the base name of record i, and the results whose
\* source is one of a set of records.
GroupIdx(i) == {j \in DOMAIN files : files[j].name = files[i].name}

ResultsFor(S) == {k \in DOMAIN dd_results : dd_results[k].src \in S}

\* (sizeBytes, modTime) of record i is lexicographically below that of j.
Below(i, j) ==
    \/ files[i].size_bytes < files[j].size_bytes
    \/ /\ files[i].size_bytes = files[j].size_bytes
       /\ files[i].mtime < files[j].mtime

\* C8, as the claim states it: once deduplicate has been called with an
\* unknown policy name it has failed with the configuration error and has
\* produced no result, whatever the record set (empty and all-unique sets
\* included).
C8_UnknownPolicyAlwaysFails ==
    (dd_state # "idle" /\ policy \notin SupportedPolicies)
        => (dd_state = "ValueError" /\ dd_results = <<>>)

\* C9: under prefer_newer every group of two or more records gets exactly
\* one COPY, on a record no other record of the group exceeds in
\* (sizeBytes, modTime), and every other record of the group gets DUPLICATE
\* with reason "duplicate"; ties included.
C9_PreferNewerOneWinner ==
    (dd_state # "idle" /\ policy = "prefer_newer") =>
        /\ dd_state = "returned"
        /\ \A i \in DOMAIN files :
              Cardinality(GroupIdx(i)) >= 2 =>
                 LET rs == ResultsFor(GroupIdx(i))
                     copies == {k \in rs : dd_results[k].decision = "COPY"}
                 IN  /\ Cardinality(copies) = 1
                     /\ \A k \in copies : \A j \in GroupIdx(i) :
                            ~Below(dd_results[k].src, j)
                     /\ \A j \in GroupIdx(i) : ResultsFor({j}) # {}
                     /\ \A k \in rs \ copies :
                            /\ dd_results[k].decision = "DUPLICATE"
                            /\ dd_results[k].reason = "duplicate"

\* C9 witness: prefer_newer has decided a group in which two records tie on
\* the maximal (sizeBytes, modTime).
C9_Witness ==
    /\ dd_state = "returned"
    /\ policy = "prefer_newer"
    /\ \E i, j \in DOMAIN files :
          /\ i # j
          /\ files[i].name = files[j].name
          /\ Key(files[i]) = Key(files[j])
          /\ \A l \in GroupIdx(i) : ~Below(i, l)
          /\ Cardinality(GroupIdx(i)) = 3

\* C10: under every supported policy deduplicate returns, and a record whose
\* base name no other record shares gets COPY with reason "unique".
C10_UniqueIsCopy ==
    (dd_state # "idle" /\ policy \in SupportedPolicies) =>
        /\ dd_state = "returned"
        /\ \A i \in DOMAIN files :
              GroupIdx(i) = {i} =>
                 /\ ResultsFor({i}) # {}
                 /\ \A k \in ResultsFor({i}) :
                        /\ dd_results[k].decision = "COPY"
                        /\ dd_results[k].reason = "unique"

\* C10 witness: a returned list holding a record with a unique base name
\* next to a group of two.
C10_Witness ==
    /\ dd_state = "returned"
    /\ policy \in SupportedPolicies
    /\ \E i, j \in DOMAIN files :
          /\ GroupIdx(i) = {i}
          /\ Cardinality(GroupIdx(j)) = 2

\* C11: under every supported policy deduplicate returns a list with exactly
\* one DedupResult per input record: as many results as records, and every
\* record the source of exactly one of them.
C11_OneResultPerRecord ==
    (dd_state # "idle" /\ policy \in SupportedPolicies) =>
        /\ dd_state = "returned"
        /\ Len(dd_results) = Len(files)
        /\ \A k \in DOMAIN dd_results : dd_results[k].src \in DOMAIN files
        /\ \A i \in DOMAIN files : Cardinality(ResultsFor({i})) = 1

\* C11 witness: a returned list for three records, two of them sharing a
\* base name.
C11_Witness ==
    /\ dd_state = "returned"
    /\ policy \in SupportedPolicies
    /\ Len(files) = 3
    /\ Len(dd_results) = 3
    /\ \E i \in DOMAIN files : Cardinality(GroupIdx(i)) = 2

(***************************************************************************)
(* Destination paths.  A DedupResult as deduplication/engine.py builds it  *)
(* has no destination path; console/main.py reads result.dest_path, which  *)
(* the pipeline assigns before scheduling.  From the design (sections 3    *)
(* and 4.3): the path is the destination directory with the base name of   *)
(* the source, and a CopyWithSuffix gets a suffix that is a function of    *)
(* the record's position within its group.                                 *)
(***************************************************************************)
\* The position of result k among the results of its group, from 1.
GroupPosition(fs, rs, k) ==
    Cardinality({j \in 1..k : fs[rs[j].src].name = fs[rs[k].src].name})

\* The suffix of result k: 0 is no suffix.
Suffix(fs, rs, k) ==
    IF rs[k].decision = "COPY_WITH_SUFFIX" THEN GroupPosition(fs, rs, k) ELSE 0

\* The destination path of result k, under the one destination directory.
DestPath(fs, rs, k) == <<fs[rs[k].src].name, Suffix(fs, rs, k)>>

\* C12, as the claim states it: under keep_both_with_suffix every record of
\* a group of two or more gets COPY_WITH_SUFFIX, and the results of one group
\* get pairwise distinct suffixes.
C12_KeepBothDistinctSuffixes ==
    (dd_state # "idle" /\ policy = "keep_both_with_suffix") =>
        /\ dd_state = "returned"
        /\ \A i \in DOMAIN files :
              Cardinality(GroupIdx(i)) >= 2 =>
                 LET rs == ResultsFor(GroupIdx(i))
                 IN  /\ ResultsFor({i}) # {}
                     /\ \A k \in rs : dd_results[k].decision = "COPY_WITH_SUFFIX"
                     /\ \A k, l \in rs :
                            k # l => Suffix(files, dd_results, k)
                                        # Suffix(files, dd_results, l)

\* C13, as the claim states it: no two results with an actionable decision
\* resolve to the same destination path, under any policy.
C13_DestPathsCollisionFree ==
    dd_state = "returned" =>
        \A k, l \in DOMAIN dd_results :
            (/\ k # l
             /\ Actionable(dd_results[k].decision)
             /\ Actionable(dd_results[l].decision))
                => DestPath(files, dd_results, k) # DestPath(files, dd_results, l)

\* The decision a result list assigns to record i.
DecisionFor(rs, i) == {rs[k].decision : k \in {k \in DOMAIN rs : rs[k].src = i}}

\* C14, as the claim states it: a second run of deduplicate over the same
\* records and policy, enumerated in another order, assigns every record the
\* decision the first run assigned it.
C14_DecisionsIndependentOfOrder ==
    dd_again.done =>
        /\ ~dd_again.raised
        /\ \A i \in DOMAIN files :
              DecisionFor(dd_again.results, i) = DecisionFor(dd_results, i)

(***************************************************************************)
(* Properties of verify_file (under SpecVerify).                           *)
(***************************************************************************)
\* C15, as the claim states it: verify_file never ends by raising a
\* filesystem error; whenever stat or read fails on either file it returns
\* False.
C15_VerifyNeverPropagatesFsFault ==
    /\ v_result \notin FsErrors
    /\ v_pc = "raised" => v_result = "ValueError"

\* C19: whenever verify_file has found the two sizes to differ it returns
\* False and has computed no checksum, whatever the algorithm; a checksum is
\* computed only after both sizes were read and found equal.
C19_SizesComparedFirst ==
    /\ nchecksum > 0 =>
          /\ v_src.stat = "ok"
          /\ v_dst.stat = "ok"
          /\ v_src.st_size = v_dst.st_size
    /\ (/\ v_pc \in {"checksum_src", "checksum_dst", "returned", "raised"}
        /\ v_src.stat = "ok"
        /\ v_dst.stat = "ok"
        /\ v_src.st_size # v_dst.st_size)
           => /\ v_pc = "returned"
              /\ v_result = "False"
              /\ nchecksum = 0

\* C19 witness: verify_file has returned for two files of different sizes
\* with a checksum algorithm configured.
C19_Witness ==
    /\ v_pc = "returned"
    /\ checksum_algo = "md5"
    /\ v_src.stat = "ok"
    /\ v_dst.stat = "ok"
    /\ v_src.st_size # v_dst.st_size
    /\ v_src.read = "ok"
    /\ v_dst.read = "ok"

(***************************************************************************)
(* Properties of discover_files (under SpecDiscovery).                     *)
(***************************************************************************)
\* C16, as the claim states it: with an empty extensions argument every
\* regular file the walk has passed is yielded, in walk order, so that all
\* files of the tree are yielded when the generator ends.
C16_EmptyExtensionsNoFilter ==
    (d_pc # "idle" /\ extensions = <<>>) =>
        yielded = [k \in 1..walk_pos |-> k]

(***************************************************************************)
(* Properties of the loggers (under SpecLog).                              *)
(***************************************************************************)
\* No call of log_result is in progress.
NoLogCallInFlight == \A w \in 1..log_workers : log_pc[w] = "idle"

\* The header row followed by rows 1..k.
HeaderAndRows(k) == [i \in 1..(k + 1) |-> i - 1]

\* C17, as the claim states it: with the calls of log_result made one after
\* another, after k completed calls (k >= 0) and before close the CSV file
\* on disk holds the header row followed by rows 1..k; and the JSON file
\* holds nothing before the first flush.
C17_RowLogDurablePerRecord ==
    /\ (log_workers = 1 /\ csv_open /\ NoLogCallInFlight) =>
           csv_disk = HeaderAndRows(log_completed)
    /\ json_flushes = 0 => json_disk = <<>>

\* C17, amended: the same for k >= 1.  (Before the first call has returned
\* the header row is still in the file object's buffer.)
C17_RowLogDurableFromFirstRecord ==
    /\ (log_workers = 1 /\ csv_open /\ NoLogCallInFlight /\ log_completed >= 1) =>
           csv_disk = HeaderAndRows(log_completed)
    /\ json_flushes = 0 => json_disk = <<>>

\* C17 witness: three calls of log_result made one after another have
\* returned, the CSV file is still open, and the JSON logger holds records
\* it has not flushed.
C17_Witness ==
    /\ log_workers = 1
    /\ csv_open
    /\ NoLogCallInFlight
    /\ log_completed = 3
    /\ Len(json_records) >= 1
    /\ json_flushes = 0

\* C18, as the claim states it: at most one thread is between the start of
\* writerow and the end of flush at any time.
C18_RowWritesSerialized ==
    Cardinality({w \in 1..log_workers : log_pc[w] = "written"}) <= 1

====
